---- MODULE Spec2Model ----
(***************************************************************************)
(* The site-accessibility crawler and the issue filer of the               *)
(* "Accessibility Report" note: spider() driven by the Cypress command     *)
(* queue, the report written by the checkA11y callback, and the script     *)
(* that files one GitHub issue per report.                                 *)
(*                                                                         *)
(* Strings the code inspects character by character (hrefs, URLs, file     *)
(* names, titles) are sequences of one-character strings.  Fixed template  *)
(* texts of the markdown report and the title prefix are single atoms of   *)
(* such a sequence.                                                        *)
(***************************************************************************)
EXTENDS Integers, Sequences, FiniteSets, TLC

(* ------------------------------ bounds --------------------------------- *)

\* the largest depth a crawl is started with
MaxDepth == 3

\* how far below zero the depth a crawl is started with may lie (a negative
\* depth is a misconfiguration)
MaxBelowZero == 1

\* Cypress runs of the pipeline specification
MaxRuns == 2

\* passes of the issue filer in the filer specification
MaxPasses == 1

\* cy.visit calls one run may make before the model stops extending it
MaxVisits == 8

(* --------------------------- string helpers ---------------------------- *)

\* String.prototype.startsWith
StartsWith(s, p) == Len(s) >= Len(p) /\ SubSeq(s, 1, Len(p)) = p

\* String.prototype.includes
Includes(s, p) ==
    \E i \in 1..(Len(s) - Len(p) + 1) : SubSeq(s, i, i + Len(p) - 1) = p

\* the position of the first occurrence of p in s, 0 when there is none
IndexOf(s, p) ==
    LET hits == {i \in 1..(Len(s) - Len(p) + 1) : SubSeq(s, i, i + Len(p) - 1) = p}
    IN  IF hits = {} THEN 0 ELSE CHOOSE i \in hits : \A j \in hits : i <= j

\* String.prototype.replace(p, '') with a string pattern: the first occurrence only
RemoveFirst(s, p) ==
    LET i == IndexOf(s, p)
    IN  IF i = 0 THEN s ELSE SubSeq(s, 1, i - 1) \o SubSeq(s, i + Len(p), Len(s))

\* the position of the first character of s that is in the set cs, Len(s)+1 when none
FirstOf(s, cs) ==
    LET hits == {i \in 1..Len(s) : s[i] \in cs}
    IN  IF hits = {} THEN Len(s) + 1 ELSE CHOOSE i \in hits : \A j \in hits : i <= j

RECURSIVE Flatten(_)
Flatten(ss) == IF ss = <<>> THEN <<>> ELSE Head(ss) \o Flatten(Tail(ss))

\* Array.prototype.join
RECURSIVE Join(_, _)
Join(ss, sep) ==
    IF ss = <<>> THEN <<>>
    ELSE IF Len(ss) = 1 THEN Head(ss)
    ELSE Head(ss) \o sep \o Join(Tail(ss), sep)

\* the elements of xs that are not in seen, each once, in order
RECURSIVE DedupeFrom(_, _)
DedupeFrom(xs, seen) ==
    IF xs = <<>> THEN <<>>
    ELSE IF Head(xs) \in seen THEN DedupeFrom(Tail(xs), seen)
    ELSE <<Head(xs)>> \o DedupeFrom(Tail(xs), seen \cup {Head(xs)})

\* [...new Set(xs)]: the first occurrence of every element, in order
Dedupe(xs) == DedupeFrom(xs, {})

Range(xs) == {xs[i] : i \in 1..Len(xs)}

(* -------------------------------- URLs --------------------------------- *)

\* Cypress.config().baseUrl: "https://s"
baseUrl == <<"h","t","t","p","s",":","/","/","s">>

Scheme == <<"h","t","t","p","s",":","/","/">>

\* the value standing for "new URL(...) threw TypeError: Invalid URL"
InvalidURL == <<"!">>

\* the segments of a path "/x/y": the texts between the slashes
RECURSIVE Segments(_)
Segments(p) ==
    LET rest == Tail(p)
        cut  == FirstOf(rest, {"/"})
    IN  IF cut > Len(rest) THEN <<rest>>
        ELSE <<SubSeq(rest, 1, cut - 1)>> \o Segments(SubSeq(rest, cut, Len(rest)))

\* the URL parser's path state: "." and ".." segments are resolved
RECURSIVE DotFree(_, _)
DotFree(segs, out) ==
    IF segs = <<>> THEN out
    ELSE LET s    == Head(segs)
             last == Len(segs) = 1
         IN  IF s = <<".">>
             THEN DotFree(Tail(segs), IF last THEN Append(out, <<>>) ELSE out)
             ELSE IF s = <<".", ".">>
             THEN LET popped == IF out = <<>> THEN out ELSE SubSeq(out, 1, Len(out) - 1)
                  IN  DotFree(Tail(segs), IF last THEN Append(popped, <<>>) ELSE popped)
             ELSE DotFree(Tail(segs), Append(out, s))

NormPath(p) ==
    LET segs == DotFree(Segments(p), <<>>)
    IN  Flatten([i \in 1..Len(segs) |-> <<"/">> \o segs[i]])

\* the leading slashes of s removed
RECURSIVE SkipSlashes(_)
SkipSlashes(s) == IF s # <<>> /\ Head(s) = "/" THEN SkipSlashes(Tail(s)) ELSE s

\* new URL(href, Cypress.config().baseUrl).toString() for an href that starts
\* with "/": a href "//host/p" names another host, any other one a path of
\* the base's host; the fragment and the query are kept.
Resolve(href) ==
    IF StartsWith(href, <<"/", "/">>)
    THEN LET auth == SkipSlashes(href)
             hEnd == FirstOf(auth, {"/", "?", "#"})
             host == SubSeq(auth, 1, hEnd - 1)
             tail == SubSeq(auth, hEnd, Len(auth))
             pEnd == FirstOf(tail, {"?", "#"})
             path == SubSeq(tail, 1, pEnd - 1)
         IN  IF host = <<>> THEN InvalidURL
             ELSE Scheme \o host
                  \o (IF path = <<>> THEN <<"/">> ELSE NormPath(path))
                  \o SubSeq(tail, pEnd, Len(tail))
    ELSE LET pEnd == FirstOf(href, {"?", "#"})
         IN  baseUrl \o NormPath(SubSeq(href, 1, pEnd - 1))
                     \o SubSeq(href, pEnd, Len(href))

\* the host of an absolute URL
HostOf(url) ==
    LET rest == SubSeq(url, Len(Scheme) + 1, Len(url))
    IN  SubSeq(rest, 1, FirstOf(rest, {"/", "?", "#"}) - 1)

\* the path the server is asked for: the URL without host, query and fragment
PathOf(url) ==
    LET rest == SubSeq(url, Len(Scheme) + 1, Len(url))
        from == FirstOf(rest, {"/", "?", "#"})
        tail == SubSeq(rest, from, Len(rest))
    IN  SubSeq(tail, 1, FirstOf(tail, {"?", "#"}) - 1)

(* ------------------------------ the site ------------------------------- *)

\* hrefs of the anchors of the site under test ("/a" is /about, "/a/t" is /about/team)
hRoot == <<"/">>

hAbout == <<"/", "a">>

hTeam == <<"/", "a", "/", "t">>

hB == <<"/", "b">>

hLogout == <<"/", "l", "o", "g", "o", "u", "t">>

hMailto == <<"m", "a", "i", "l", "t", "o", ":", "x">>

hMailtoPath == <<"/", "m", "a", "i", "l", "t", "o", ":", "x">>

hTop == <<"#", "t">>

hAboutFrag == <<"/", "a", "#", "t">>

hDotAbout == <<"/", ".", "/", "a">>

hOther == <<"/", "/", "o", "/", "x">>

hBad == <<"/", "/">>

\* the paths the site serves; any other path is a 404
Pages == {hRoot, hAbout, hTeam, hB, hLogout}

\* the host of baseUrl
SiteHost == <<"s">>

\* the anchor lists (in DOM order) a page of the site may carry
Menu(path) ==
    CASE path = hRoot ->
           { <<hAbout>>, <<hAbout, hB>>, <<hB, hOther>>, <<hBad, hAbout>>, <<hTop>>,
             <<hAbout, hDotAbout>>,
             <<hTop, hMailto, hLogout, hAbout, hAboutFrag>> }
      [] path = hAbout ->
           { <<hTeam>>, <<hRoot, hB>>, <<hAbout, hTeam, hLogout>>, <<hMailtoPath, hB>>, <<>> }
      [] path = hB -> { <<hTeam>>, <<hAbout, hRoot>> }
      [] path = hTeam -> { <<hRoot>>, <<hB, hAbout>> }
      [] OTHER -> { <<hRoot>> }

\* every href of the site
AllHrefs == UNION {Range(m) : m \in UNION {Menu(p) : p \in Pages}}

\* new URL(href, baseUrl).toString() of every href of the site that starts
\* with "/", computed once
Resolved == [h \in {x \in AllHrefs : StartsWith(x, <<"/">>)} |-> Resolve(h)]

\* violations axe reports
vModerate ==
    [id |-> "region", impact |-> "moderate", description |-> "d-region",
     help |-> "h-region", helpUrl |-> "u-region", nodes |-> <<"<div>", "<p>">>]

vSerious ==
    [id |-> "color-contrast", impact |-> "serious", description |-> "d-contrast",
     help |-> "h-contrast", helpUrl |-> "u-contrast", nodes |-> <<"<a>">>]

vMinor ==
    [id |-> "tabindex", impact |-> "minor", description |-> "d-tabindex",
     help |-> "h-tabindex", helpUrl |-> "u-tabindex", nodes |-> <<"<b>">>]

\* a violation made up for a page whose audit failed: it names no nodes
vAuditFailed ==
    [id |-> "AuditFailed", impact |-> "critical", description |-> "d-failed",
     help |-> "h-failed", helpUrl |-> "u-failed"]

\* what win.axe.run may find on a page
AxeResults == { <<>>, <<vModerate>>, <<vSerious, vMinor>> }

(* ------------------------------- reports ------------------------------- *)

\* the text a call returns that throws a TypeError instead of returning
TypeError == <<"TypeError">>

\* const header; the backquote of the template is written '
Header(url) == <<"## Accessibility Violations on '">> \o url \o <<"'\n\n">>

\* `  - \`${n.html}\``
Bullet(html) == <<"  - '", html, "'">>

\* the template of one violation; the cross mark is written (x)
Section(v) ==
    <<"\n### (x) ", v.id, "\n- Impact: '", v.impact, "'\n- Description: ",
      v.description, "\n- Help: [", v.help, "](", v.helpUrl,
      ")\n- Affected Elements:\n">>
    \o Join([i \in 1..Len(v.nodes) |-> Bullet(v.nodes[i])], <<"\n">>)
    \o <<"\n  ">>

\* the formatter without its test for an empty list: heading and sections only
formatViolationsToMarkdownNoSentinel(url, violations) ==
    Header(url) \o Flatten([i \in 1..Len(violations) |-> <<"\n### (x) ", violations[i].id>>])

\* the formatter rendering the violations last to first
formatViolationsToMarkdownReversed(url, violations) ==
    IF Len(violations) = 0 THEN Header(url) \o <<"_No violations found._">>
    ELSE IF \E i \in 1..Len(violations) : "nodes" \notin DOMAIN violations[i]
         THEN TypeError
         ELSE Header(url)
              \o Join([i \in 1..Len(violations) |->
                         Section(violations[Len(violations) + 1 - i])], <<"\n">>)

\* formatViolationsToMarkdown(url, violations); v.nodes.map throws a TypeError
\* for a violation that has no nodes
formatViolationsToMarkdown(url, violations) ==
    IF Len(violations) = 0 THEN Header(url) \o <<"_No violations found._">>
    ELSE IF \E i \in 1..Len(violations) : "nodes" \notin DOMAIN violations[i]
         THEN TypeError
         ELSE Header(url) \o Join([i \in 1..Len(violations) |-> Section(violations[i])], <<"\n">>)

\* the key without the case of the root path
safeNameNoHome(url) ==
    LET dashed == [i \in 1..Len(url) |-> IF url[i] = "/" THEN "-" ELSE url[i]]
    IN  IF dashed # <<>> /\ Head(dashed) = "-" THEN Tail(dashed) ELSE dashed

\* url === '/' ? 'home' : url.replace(/\//g, '-').replace(/^-/, '')
safeName(url) ==
    IF url = <<"/">> THEN <<"h", "o", "m", "e">>
    ELSE LET dashed == [i \in 1..Len(url) |-> IF url[i] = "/" THEN "-" ELSE url[i]]
         IN  IF dashed # <<>> /\ Head(dashed) = "-" THEN Tail(dashed) ELSE dashed

\* the name of the file cy.writeFile writes in the reports directory
ReportFile(url) == <<"a", "1", "1", "y", "-">> \o safeName(url) \o <<".", "m", "d">>

(* ------------------------------- state --------------------------------- *)

VARIABLES
    maxDepth,    \* the depth the crawl is started with: spider(`${baseUrl}/`, maxDepth)
    saveReport,  \* which checkA11y call spider() makes: FALSE the one of the crawl
                 \* script (options, no callback), TRUE the one of "Save the Report"
                 \* (no options, the callback that writes the report)
    dom,         \* the site: path -> anchors of the page, for the pages loaded so far
    axe,         \* the site: path -> violations of the page, for the pages audited so far
    visited,     \* const visited = new Set()
    queue,       \* the Cypress command queue of the running test
    status,      \* of the Cypress test: "idle", "running", "passed", "failed"
    failure,     \* <<kind, url>> of the command that failed the test, <<>> if none
    location,    \* the path of the page the browser shows
    visits,      \* history: the URLs given to cy.visit in this run, in order
    audits,      \* history: the URLs cy.checkA11y ran on in this run, in order
    calls,       \* history: the spider(url, depth) invocations of this run, in order,
                 \* each with the href of the link it was made for
    reports,     \* the reports directory: file name -> content
    runsLeft,    \* Cypress runs still to start
    passesLeft,  \* passes of the issue filer still to start
    tracker,     \* the open issues of the tracker, in creation order
    filer,       \* the issue-filing script: per process its position, files left,
                 \* the title last searched for (asked) and the listing got
    flog,        \* history: what the issue filer logged, in order
    markdown,    \* the last call of formatViolationsToMarkdown: arguments and text returned
    writes,      \* history: the cy.writeFile calls on the reports directory, in
                 \* order, each with the run (its runsLeft) that made it
    earlier,     \* history: the Cypress runs before this one, in order: what each
                 \* audited and how it ended
    disk,        \* add-metadata.cjs: the files of content/python/**/*.md -> content
    pending,     \* the files of `files` that forEach has not come to yet
    addedCount,  \* let addedCount = 0
    skippedCount, \* let skippedCount = 0
    script,      \* of add-metadata.cjs: "idle", "running", "done"
    original,    \* history: the content of each file before the first run
    atStart,     \* history: the content of each file when the run under way started
    metadataRuns \* history: the runs of add-metadata.cjs started so far

vars == <<maxDepth, saveReport, dom, axe, visited, queue, status, failure, location,
          visits, audits, calls, reports, runsLeft, passesLeft, tracker, filer, flog,
          markdown, writes, earlier, disk, pending, addedCount, skippedCount,
          script, original, atStart, metadataRuns>>

metadata == <<disk, pending, addedCount, skippedCount, script, original, atStart,
              metadataRuns>>

config == <<maxDepth, saveReport>>

filing == <<tracker, filer, flog>>

\* a call of formatViolationsToMarkdown(url, violations) and what it returned
Formatted(url, violations) ==
    [url |-> url, violations |-> violations,
     text |-> formatViolationsToMarkdown(url, violations)]

\* the callback of "Save the Report": the report of the page is formatted and
\* cy.writeFile writes it, replacing the file of that name if there is one
SaveTheReport(url, violations) ==
    /\ markdown' = Formatted(url, violations)
    /\ reports' = (ReportFile(url) :> markdown'.text) @@ reports
    /\ writes' = Append(writes, [run |-> runsLeft, url |-> url, violations |-> violations,
                                 file |-> ReportFile(url), content |-> markdown'.text])

(* ------------------------------ the crawl ------------------------------ *)

\* the seed of the crawl: `${Cypress.config().baseUrl}/`
Seed == baseUrl \o <<"/">>

\* includedImpacts: ['critical', 'serious']
includedImpacts == {"critical", "serious"}

\* the early return of spider(): if (visited.has(url) || depth === 0) return
SpiderReturnsNoVisitedTest(url, depth) == depth = 0

SpiderReturnsNoDepthTest(url, depth) == url \in visited

SpiderReturnsNever(url, depth) == FALSE

SpiderReturns(url, depth) == url \in visited \/ depth = 0

\* cy.get('a[href^="/"]'): the anchors whose href starts with "/"
Selected(anchors) == SelectSeq(anchors, LAMBDA h : StartsWith(h, <<"/">>))

\* the first three tests of the filter: not '#...', no 'logout', no 'mailto:'
TextOKNoLogoutTest(href) ==
    /\ ~StartsWith(href, <<"#">>)
    /\ ~Includes(href, <<"m", "a", "i", "l", "t", "o", ":">>)

TextOK(href) ==
    /\ ~StartsWith(href, <<"#">>)
    /\ ~Includes(href, <<"l", "o", "g", "o", "u", "t">>)
    /\ ~Includes(href, <<"m", "a", "i", "l", "t", "o", ":">>)

\* the filter of the hrefs: the text tests, then the resolved URL is not visited
KeepHrefRaw(href) == TextOK(href) /\ href \notin visited

KeepHref(href) == TextOK(href) /\ Resolved[href] \notin visited

\* new URL(href, baseUrl) throws inside the filter for an href that passed the
\* text tests and does not parse
FilterThrows(anchors) ==
    \E i \in 1..Len(Selected(anchors)) :
        TextOK(Selected(anchors)[i]) /\ Resolved[Selected(anchors)[i]] = InvalidURL

\* the hrefs kept, in DOM order in the first run and in the reverse order in
\* the runs after it
ExtractHrefsOrderByRun(anchors) ==
    LET hrefs == Dedupe(SelectSeq(Selected(anchors), KeepHref))
    IN  IF earlier = <<>> THEN hrefs
        ELSE [i \in 1..Len(hrefs) |-> hrefs[Len(hrefs) + 1 - i]]

\* const hrefs = [...new Set($links.map(...).get().filter(...))]
ExtractHrefs(anchors) == Dedupe(SelectSeq(Selected(anchors), KeepHref))

\* a queued command; href is the raw href a cy.then(() => spider(...)) was made for
Cmd(op, url, depth, href) == [op |-> op, url |-> url, depth |-> depth, href |-> href]

\* the commands one spider() call that does not return early puts on the queue
SpiderCommands(url, depth) ==
    << Cmd("visit", url, depth, <<>>), Cmd("injectAxe", url, depth, <<>>),
       Cmd("checkA11y", url, depth, <<>>), Cmd("get", url, depth, <<>>) >>

\* spider(url, depth), called with `rest` the commands queued behind the caller
spider(url, depth, rest) ==
    /\ calls' = Append(calls, [url |-> url, depth |-> depth, href |-> Head(queue).href])
    /\ IF SpiderReturns(url, depth)
       THEN /\ visited' = visited
            /\ queue' = rest
       ELSE /\ visited' = visited \cup {url}
            /\ queue' = SpiderCommands(url, depth) \o rest

\* a failed command fails the test: Cypress runs none of the commands left
Fail(kind, url) ==
    /\ status' = "failed"
    /\ failure' = <<kind, url>>
    /\ queue' = <<>>

Running == status = "running" /\ queue # <<>>

\* the visited set a run would start with if the set outlived the run
VisitedKept == visited

\* const visited = new Set(), evaluated when the run loads the spec file
NewVisited == {}

\* a Cypress run starts: the spec file is loaded, which makes a new visited
\* set, and the test 'Crawls and audits pages' is queued
StartCrawl ==
    /\ status # "running"
    /\ runsLeft > 0
    /\ passesLeft <= runsLeft
    /\ \A f \in DOMAIN filer : filer[f].pc # "search" /\ filer[f].pc # "decide"
    /\ runsLeft' = runsLeft - 1
    /\ status' = "running"
    /\ failure' = <<>>
    /\ visited' = NewVisited
    /\ queue' = <<Cmd("it", Seed, maxDepth, <<>>)>>
    /\ earlier' = IF status = "idle" THEN earlier
                  ELSE Append(earlier, [audits |-> audits, status |-> status,
                                        failure |-> failure])
    /\ visits' = <<>>
    /\ audits' = <<>>
    /\ calls' = <<>>
    /\ UNCHANGED <<config, metadata, markdown, writes, dom, axe, location, reports,
                   passesLeft, filing>>

\* the test body: spider(`${Cypress.config().baseUrl}/`, depth)
TestBody ==
    /\ Running
    /\ Head(queue).op = "it"
    /\ spider(Head(queue).url, Head(queue).depth, Tail(queue))
    /\ UNCHANGED <<config, metadata, markdown, writes, earlier, dom, axe, status, failure, location, visits, audits,
                   reports, runsLeft, passesLeft, filing>>

\* cy.visit(url): the server answers for the path of the URL; a URL of another
\* host, a path the site does not serve or a page that does not load in time
\* fails the command
Visit ==
    /\ Running
    /\ Head(queue).op = "visit"
    /\ Len(visits) < MaxVisits
    /\ LET url  == Head(queue).url
           path == PathOf(url)
       IN  /\ visits' = Append(visits, url)
           /\ \/ /\ HostOf(url) = SiteHost
                 /\ path \in Pages
                 /\ \E anchors \in (IF path \in DOMAIN dom THEN {dom[path]} ELSE Menu(path)) :
                        dom' = (path :> anchors) @@ dom
                 /\ location' = path
                 /\ queue' = Tail(queue)
                 /\ UNCHANGED <<status, failure>>
              \/ /\ Fail("visit", url)
                 /\ UNCHANGED <<dom, location>>
    /\ UNCHANGED <<config, metadata, markdown, writes, earlier, axe, visited, audits, calls, reports, runsLeft,
                   passesLeft, filing>>

\* cy.injectAxe()
InjectAxe ==
    /\ Running
    /\ Head(queue).op = "injectAxe"
    /\ queue' = Tail(queue)
    /\ UNCHANGED <<config, metadata, markdown, writes, earlier, dom, axe, visited, status, failure, location, visits,
                   audits, calls, reports, runsLeft, passesLeft, filing>>

\* what cypress-axe keeps of axe's result: with includedImpacts, those impacts only
Reported(result) ==
    IF saveReport THEN result
    ELSE SelectSeq(result, LAMBDA v : v.impact \in includedImpacts)

\* cy.checkA11y(null, null, (violations) => {...}): cypress-axe calls the
\* callback only with a non-empty list of violations
CallbackCalled(violations) == violations # <<>>

\* cy.checkA11y(...): axe runs on the page shown.  Violations that remain
\* after the impact filter are handed to the callback, when there is one, and
\* then fail the test (no skipFailures argument is given); so does an audit
\* that throws.  The callback of "Save the Report" writes the report file.
CheckA11y ==
    /\ Running
    /\ Head(queue).op = "checkA11y"
    /\ LET url == Head(queue).url
       IN  /\ audits' = Append(audits, url)
           /\ \/ /\ Fail("audit", url)
                 /\ UNCHANGED <<axe, reports, markdown, writes>>
              \/ \E result \in (IF location \in DOMAIN axe THEN {axe[location]}
                                ELSE AxeResults) :
                    /\ axe' = (location :> result) @@ axe
                    /\ IF saveReport /\ CallbackCalled(Reported(result))
                       THEN SaveTheReport(url, Reported(result))
                       ELSE UNCHANGED <<reports, markdown, writes>>
                    /\ IF Reported(result) = <<>>
                       THEN /\ queue' = Tail(queue)
                            /\ UNCHANGED <<status, failure>>
                       ELSE Fail("violations", url)
    /\ UNCHANGED <<config, metadata, dom, visited, location, visits, calls, runsLeft,
                   passesLeft, filing, earlier>>

\* cy.get('a[href^="/"]').then($links => ...): cy.get fails when no anchor
\* matches; the callback filters the hrefs and queues, per href that is left,
\* cy.then(() => spider(absolute, depth - 1))
GetLinks ==
    /\ Running
    /\ Head(queue).op = "get"
    /\ LET url     == Head(queue).url
           depth   == Head(queue).depth
           anchors == dom[location]
           hrefs   == ExtractHrefs(anchors)
       IN  IF Selected(anchors) = <<>> THEN Fail("get", url)
           ELSE IF FilterThrows(anchors) THEN Fail("url", url)
           ELSE /\ queue' = [i \in 1..Len(hrefs) |->
                               Cmd("then", Resolved[hrefs[i]], depth - 1, hrefs[i])] \o Tail(queue)
                /\ UNCHANGED <<status, failure>>
    /\ UNCHANGED <<config, metadata, markdown, writes, earlier, dom, axe, visited, location, visits, audits, calls,
                   reports, runsLeft, passesLeft, filing>>

\* cy.then(() => spider(absolute, depth - 1))
SpiderThen ==
    /\ Running
    /\ Head(queue).op = "then"
    /\ spider(Head(queue).url, Head(queue).depth, Tail(queue))
    /\ UNCHANGED <<config, metadata, markdown, writes, earlier, dom, axe, status, failure, location, visits, audits,
                   reports, runsLeft, passesLeft, filing>>

\* the command queue is empty: the test passes
Finish ==
    /\ status = "running"
    /\ queue = <<>>
    /\ status' = "passed"
    /\ UNCHANGED <<config, metadata, markdown, writes, earlier, dom, axe, visited, queue, failure, location, visits,
                   audits, calls, reports, runsLeft, passesLeft, filing>>

NextCrawl ==
    \/ StartCrawl
    \/ TestBody
    \/ Visit
    \/ InjectAxe
    \/ CheckA11y
    \/ GetLinks
    \/ SpiderThen
    \/ Finish

(* --------------------------- the issue filer --------------------------- *)

\* the prefix of a title: 'Accessibility issues on /'
TitlePrefix == <<"Accessibility issues on /">>

\* const page = file.replace('.md', ''); const title = `Accessibility issues on /${page}`
Title(file) == TitlePrefix \o RemoveFirst(file, <<".", "m", "d">>)

\* one line of the output of `gh issue list`: number, state, title, labels
Line(title) == <<"#", "\t", "OPEN", "\t">> \o title \o <<"\t", "accessibility, automated", "\n">>

\* the open issues whose title is exactly the title searched for
Exact(title) == {i \in 1..Len(tracker) : tracker[i] = title}

\* the open issues whose title holds the words searched for
Containing(title) == {i \in 1..Len(tracker) : Includes(tracker[i], title)}

\* the output of `gh issue list --search "${title}" --state open`: the search
\* finds every open issue of that title, and may also find the open issues
\* whose title holds those words
Listings(title) ==
    { Flatten([k \in 1..Len(tracker) |-> IF k \in hits THEN Line(tracker[k]) ELSE <<>>]) :
        hits \in {Exact(title), Containing(title)} }

\* if (existing.includes(title)): the issue is taken to exist
TakenToExistNever(existing, title) == FALSE

TakenToExist(existing, title) == Includes(existing, title)

\* fs.readdirSync(reportsDir): the names of the files, in an order the file
\* system chooses
RECURSIVE Orders(_)
Orders(names) ==
    IF names = {} THEN {<<>>}
    ELSE UNION {{<<n>> \o rest : rest \in Orders(names \ {n})} : n \in names}

\* the script going to the decision without the search
PositionNoSearch(left) == IF left = <<>> THEN "done" ELSE "decide"

\* where the script stands once the files in `left` are left to process
Position(left) == IF left = <<>> THEN "done" ELSE "search"

\* where the script stands after a `gh issue create` that threw: the catch
\* block logs the error and forEach goes on with the next file
AfterCreateFailureUncaught(left) == "crashed"

AfterCreateFailure(left) == Position(left)

Entry(f, what) ==
    [filer |-> f, pass |-> filer[f].pass, file |-> Head(filer[f].todo), what |-> what]

\* the script starts: fs.readdirSync(reportsDir).forEach(...)
FilerStart(f) ==
    /\ status # "running"
    /\ passesLeft > runsLeft
    /\ filer[f].pc \in {"idle", "done", "crashed"}
    /\ \E files \in Orders(DOMAIN reports) :
          filer' = [filer EXCEPT ![f] = [pc |-> Position(files), todo |-> files,
                                         asked |-> <<>>, existing |-> <<>>,
                                         pass |-> @.pass + 1]]
    /\ passesLeft' = passesLeft - 1
    /\ UNCHANGED <<config, metadata, markdown, writes, earlier, dom, axe, visited, queue, status, failure, location,
                   visits, audits, calls, reports, runsLeft, tracker, flog>>

\* const existing = execSync(`gh issue list --search "${title}" --state open`):
\* the output, or an exception that nothing catches and that ends the script
FilerSearch(f) ==
    /\ filer[f].pc = "search"
    /\ \/ \E out \in Listings(Title(Head(filer[f].todo))) :
             /\ filer' = [filer EXCEPT ![f].pc = "decide",
                                       ![f].asked = Title(Head(filer[f].todo)),
                                       ![f].existing = out]
             /\ flog' = flog
       \/ /\ filer' = [filer EXCEPT ![f].pc = "crashed"]
          /\ flog' = Append(flog, Entry(f, "search failed"))
    /\ UNCHANGED <<config, metadata, markdown, writes, earlier, dom, axe, visited, queue, status, failure, location,
                   visits, audits, calls, reports, runsLeft, passesLeft, tracker>>

\* the issue is taken to exist: log and skip
FilerSkip(f) ==
    /\ filer[f].pc = "decide"
    /\ TakenToExist(filer[f].existing, Title(Head(filer[f].todo)))
    /\ flog' = Append(flog, Entry(f, "skipped"))
    /\ filer' = [filer EXCEPT ![f].pc = Position(Tail(filer[f].todo)),
                              ![f].todo = Tail(@)]
    /\ UNCHANGED <<config, metadata, markdown, writes, earlier, dom, axe, visited, queue, status, failure, location,
                   visits, audits, calls, reports, runsLeft, passesLeft, tracker>>

\* execSync(`gh issue create --title "${title}" ...`) succeeds
FilerCreate(f) ==
    /\ filer[f].pc = "decide"
    /\ ~TakenToExist(filer[f].existing, Title(Head(filer[f].todo)))
    /\ tracker' = Append(tracker, Title(Head(filer[f].todo)))
    /\ flog' = Append(flog, Entry(f, "created"))
    /\ filer' = [filer EXCEPT ![f].pc = Position(Tail(filer[f].todo)),
                              ![f].todo = Tail(@)]
    /\ UNCHANGED <<config, metadata, markdown, writes, earlier, dom, axe, visited, queue, status, failure, location,
                   visits, audits, calls, reports, runsLeft, passesLeft>>

\* execSync(`gh issue create ...`) throws: catch (err) logs the failure
FilerCreateFails(f) ==
    /\ filer[f].pc = "decide"
    /\ ~TakenToExist(filer[f].existing, Title(Head(filer[f].todo)))
    /\ flog' = Append(flog, Entry(f, "failed"))
    /\ filer' = [filer EXCEPT ![f].pc = AfterCreateFailure(Tail(filer[f].todo)),
                              ![f].todo = IF AfterCreateFailure(Tail(@)) = "crashed"
                                          THEN @ ELSE Tail(@)]
    /\ UNCHANGED <<config, metadata, markdown, writes, earlier, dom, axe, visited, queue, status, failure, location,
                   visits, audits, calls, reports, runsLeft, passesLeft, tracker>>

NextFiler ==
    \/ \E f \in DOMAIN filer : FilerStart(f)
    \/ \E f \in DOMAIN filer : FilerSearch(f)
    \/ \E f \in DOMAIN filer : FilerSkip(f)
    \/ \E f \in DOMAIN filer : FilerCreate(f)
    \/ \E f \in DOMAIN filer : FilerCreateFails(f)

(* --------------------------- add-metadata.cjs -------------------------- *)

\* the runs of add-metadata.cjs over one content directory
MaxMetadataRuns == 2

\* white space as String.prototype.trim() removes it
Whitespace == {" ", "\n", "\t"}

\* content.trim()
Trim(s) ==
    LET kept == {i \in 1..Len(s) : s[i] \notin Whitespace}
    IN  IF kept = {} THEN <<>>
        ELSE SubSeq(s, CHOOSE i \in kept : \A j \in kept : i <= j,
                       CHOOSE i \in kept : \A j \in kept : j <= i)

\* the test without trim(): content.startsWith("---")
HasFrontmatterUntrimmed(content) == StartsWith(content, <<"-", "-", "-">>)

\* if (content.trim().startsWith("---"))
HasFrontmatter(content) == StartsWith(Trim(content), <<"-", "-", "-">>)

\* the directories of the files matched, each written as one element
Directories == {"content/python/", "basics/"}

\* path.basename(file, ".md"): the last segment of the path without its ".md"
fileName(file) ==
    LET slashes == {i \in 1..Len(file) : file[i] \in Directories}
        from    == IF slashes = {} THEN 1
                   ELSE 1 + CHOOSE i \in slashes : \A j \in slashes : j <= i
        base    == SubSeq(file, from, Len(file))
    IN  IF Len(base) > 1 /\ base[Len(base)] = ".md"
        THEN SubSeq(base, 1, Len(base) - 1) ELSE base

\* \w of a regular expression, over the characters of the file names
WordChars == {"a", "b", "c", "A", "B", "C", "2", "_"}

\* l.toUpperCase()
toUpperCase(l) ==
    IF l = "a" THEN "A" ELSE IF l = "b" THEN "B" ELSE IF l = "c" THEN "C" ELSE l

\* fileName.replace(/-/g, " ").replace(/\b\w/g, (l) => l.toUpperCase())
title(file) ==
    LET spaced == [i \in 1..Len(fileName(file)) |->
                     IF fileName(file)[i] = "-" THEN " " ELSE fileName(file)[i]]
    IN  [i \in 1..Len(spaced) |->
           IF spaced[i] \in WordChars /\ (i = 1 \/ spaced[i - 1] \notin WordChars)
           THEN toUpperCase(spaced[i]) ELSE spaced[i]]

\* new Date().toISOString().split("T")[0], on the days the script may run
Dates == {"2025-01-31", "2025-02-01"}

\* the frontmatter template of lines 28 to 36
frontmatter(file, date) ==
    <<"-", "-", "-", "\ntitle: \"">> \o title(file)
        \o <<"\"\ntags:\n  - python\ndescription: \"\"\ndate: ", date, "\n",
             "-", "-", "-", "\n", "\n">>

\* no run of add-metadata.cjs is under way, none was made
NoMetadataRun ==
    /\ pending = <<>>
    /\ addedCount = 0
    /\ skippedCount = 0
    /\ script = "idle"
    /\ atStart = <<>>
    /\ metadataRuns = 0

\* node add-metadata.cjs: globSync("content/python/**/*.md"), the counters at 0
AddMetadataStart ==
    /\ script \in {"idle", "done"}
    /\ metadataRuns < MaxMetadataRuns
    /\ \E files \in Orders(DOMAIN disk) : pending' = files
    /\ addedCount' = 0
    /\ skippedCount' = 0
    /\ script' = "running"
    /\ atStart' = disk
    /\ metadataRuns' = metadataRuns + 1
    /\ UNCHANGED <<config, dom, axe, visited, queue, status, failure, location, visits,
                   audits, calls, reports, runsLeft, passesLeft, filing, markdown,
                   writes, earlier, disk, original>>

\* a file that has frontmatter: logged, counted as skipped, left as it is
SkipFile ==
    /\ script = "running"
    /\ pending # <<>>
    /\ HasFrontmatter(disk[Head(pending)])
    /\ skippedCount' = skippedCount + 1
    /\ pending' = Tail(pending)
    /\ UNCHANGED <<config, dom, axe, visited, queue, status, failure, location, visits,
                   audits, calls, reports, runsLeft, passesLeft, filing, markdown,
                   writes, earlier, disk, addedCount, script, original, atStart,
                   metadataRuns>>

\* any other file: fs.writeFileSync(file, frontmatter + content), counted as added
AddFrontmatter ==
    /\ script = "running"
    /\ pending # <<>>
    /\ ~HasFrontmatter(disk[Head(pending)])
    /\ \E date \in Dates :
          disk' = [disk EXCEPT ![Head(pending)] = frontmatter(Head(pending), date) \o @]
    /\ addedCount' = addedCount + 1
    /\ pending' = Tail(pending)
    /\ UNCHANGED <<config, dom, axe, visited, queue, status, failure, location, visits,
                   audits, calls, reports, runsLeft, passesLeft, filing, markdown,
                   writes, earlier, skippedCount, script, original, atStart,
                   metadataRuns>>

\* after forEach: console.log(`Done! Added ... skipped ...`)
MetadataDone ==
    /\ script = "running"
    /\ pending = <<>>
    /\ script' = "done"
    /\ UNCHANGED <<config, dom, axe, visited, queue, status, failure, location, visits,
                   audits, calls, reports, runsLeft, passesLeft, filing, markdown,
                   writes, earlier, disk, pending, addedCount, skippedCount, original,
                   atStart, metadataRuns>>

NextMetadata == AddMetadataStart \/ SkipFile \/ AddFrontmatter \/ MetadataDone

(* ---------------------------- specifications --------------------------- *)

\* the depths a crawl is started with
Depths == (0 - MaxBelowZero)..MaxDepth

\* no call of formatViolationsToMarkdown yet
NoMarkdown == [url |-> <<>>, violations |-> <<>>, text |-> <<>>]

IdleFiler == [pc |-> "idle", todo |-> <<>>, asked |-> <<>>, existing |-> <<>>, pass |-> 0]

InitCrawl ==
    /\ maxDepth \in Depths
    /\ saveReport \in BOOLEAN
    /\ dom = <<>>
    /\ axe = <<>>
    /\ visited = {}
    /\ queue = <<>>
    /\ status = "idle"
    /\ failure = <<>>
    /\ location = <<>>
    /\ visits = <<>>
    /\ audits = <<>>
    /\ calls = <<>>
    /\ filer = [f \in {1} |-> IdleFiler]
    /\ flog = <<>>
    /\ markdown = NoMarkdown
    /\ writes = <<>>
    /\ earlier = <<>>
    /\ NoMetadataRun
    /\ disk = <<>>
    /\ original = disk

\* one Cypress run of the crawl over a site of the family
Init ==
    /\ InitCrawl
    /\ reports = <<>>
    /\ tracker = <<>>
    /\ runsLeft = 1
    /\ passesLeft = 0

Spec == Init /\ [][NextCrawl]_vars

\* the same, with every enabled command of the queue eventually run
FairSpec == Spec /\ WF_vars(NextCrawl)

\* the reports a crawl may have left in the directory
ReportFiles == {ReportFile(Seed), ReportFile(Resolved[hAbout]),
                ReportFile(Resolved[hTeam]), ReportFile(Resolved[hB])}

\* the files of the reports directory when the filer runs on its own
MaxFiles == 3

\* the script alone: passes over a reports directory left by crawls, against
\* a tracker that may already hold an open issue
InitFiler ==
    /\ InitCrawl
    /\ maxDepth = 2
    /\ saveReport
    /\ \E files \in {fs \in SUBSET ReportFiles : Cardinality(fs) <= MaxFiles} :
          reports = [f \in files |-> <<"body of ">> \o f]
    /\ tracker \in {<<>>} \cup {<<Title(f)>> : f \in ReportFiles}
    /\ runsLeft = 0
    /\ passesLeft = MaxPasses

SpecFiler == InitFiler /\ [][NextFiler]_vars

\* the pipeline: a Cypress run, then the script, MaxRuns times over the same
\* site, the reports directory and the tracker persisting in between
InitPipeline ==
    /\ InitCrawl
    /\ saveReport
    /\ reports = <<>>
    /\ tracker = <<>>
    /\ runsLeft = MaxRuns
    /\ passesLeft = MaxRuns

NextPipeline == NextCrawl \/ NextFiler

SpecPipeline == InitPipeline /\ [][NextPipeline]_vars

\* page paths whose report keys meet: /a-t next to /a/t, /home next to /
hAboutDashTeam == <<"/", "a", "-", "t">>

hHome == <<"/", "h", "o", "m", "e">>

\* the page URLs the report callback may be running for: page paths, and
\* absolute URLs as spider() holds them
ReportUrls == {hRoot, hAbout, hTeam, hAboutDashTeam, hHome, Seed, Resolved[hTeam]}

\* cy.writeFile calls the report specification makes
MaxWrites == 2

\* the violation lists the formatter may be given
ReportLists == AxeResults \cup {<<vMinor, vSerious>>, <<vAuditFailed>>}

\* formatViolationsToMarkdown(url, violations) is called
FormatReport ==
    /\ \E url \in ReportUrls, violations \in ReportLists :
          markdown' = Formatted(url, violations)
    /\ UNCHANGED <<config, metadata, dom, axe, visited, queue, status, failure, location,
                   visits, audits, calls, reports, runsLeft, passesLeft, filing, writes, earlier>>

\* cy.checkA11y(null, null, callback) found violations on the page of url:
\* the callback of "Save the Report" runs
SaveReport ==
    /\ Len(writes) < MaxWrites
    /\ \E url \in ReportUrls, violations \in AxeResults \ {<<>>} :
          SaveTheReport(url, violations)
    /\ UNCHANGED <<config, metadata, dom, axe, visited, queue, status, failure, location,
                   visits, audits, calls, runsLeft, passesLeft, filing, earlier>>

\* the report code alone: reports are formatted and saved for pages in any order
InitReport ==
    /\ InitCrawl
    /\ maxDepth = 2
    /\ saveReport
    /\ reports = <<>>
    /\ tracker = <<>>
    /\ runsLeft = 0
    /\ passesLeft = 0

NextReport == FormatReport \/ SaveReport

SpecReport == InitReport /\ [][NextReport]_vars

\* the report files in the directory two concurrent passes work on
MaxSharedFiles == 1

\* the processes of the script when two run at the same time
Filers == {1, 2}

\* two runs of the script at the same time (a retry started while the first
\* job is still running) over one reports directory and one tracker
InitTwoFilers ==
    /\ maxDepth = 2
    /\ saveReport = TRUE
    /\ dom = <<>>
    /\ axe = <<>>
    /\ visited = {}
    /\ queue = <<>>
    /\ status = "idle"
    /\ failure = <<>>
    /\ location = <<>>
    /\ visits = <<>>
    /\ audits = <<>>
    /\ calls = <<>>
    /\ filer = [f \in Filers |-> IdleFiler]
    /\ flog = <<>>
    /\ markdown = NoMarkdown
    /\ writes = <<>>
    /\ earlier = <<>>
    /\ NoMetadataRun
    /\ disk = <<>>
    /\ original = disk
    /\ \E files \in {fs \in SUBSET ReportFiles : Cardinality(fs) <= MaxSharedFiles} :
          reports = [f \in files |-> <<"body of ">> \o f]
    /\ tracker = <<>>
    /\ runsLeft = 0
    /\ passesLeft = Cardinality(Filers)

SpecTwoFilers == InitTwoFilers /\ [][NextFiler]_vars

\* after a run and its filing pass the pages are repaired: axe finds nothing
\* on them any more
SiteRepaired ==
    /\ status \in {"passed", "failed"}
    /\ runsLeft > 0
    /\ passesLeft <= runsLeft
    /\ \A f \in DOMAIN filer : filer[f].pc \in {"done", "crashed"}
    /\ \E u \in DOMAIN axe : axe[u] # <<>>
    /\ axe' = [u \in DOMAIN axe |-> <<>>]
    /\ UNCHANGED <<config, metadata, markdown, writes, earlier, dom, visited, queue, status, failure, location,
                   visits, audits, calls, reports, runsLeft, passesLeft, filing>>

\* the pipeline over a site that is repaired between the runs; the crawl
\* audits the start page and looks at its links
InitRepairs ==
    /\ InitPipeline
    /\ maxDepth = 1

NextRepairs == NextPipeline \/ SiteRepaired

SpecRepairs == InitRepairs /\ [][NextRepairs]_vars

\* the files globSync("content/python/**/*.md") may match
MetadataFiles ==
    { <<"content/python/", "a", "-", "b", ".md">>,
      <<"content/python/", "basics/", "c", "2", "_", "a", ".md">> }

\* what a matched file may hold before the first run
Contents ==
    { <<>>,
      <<"x">>,
      <<"-", "-", "-", "\n", "t", "\n", "-", "-", "-", "\n", "x">>,
      <<" ", "\n", "-", "-", "-", "\n", "x">>,
      <<"-", "-", " ", "x">>,
      <<"x", "\n", "-", "-", "-">> }

\* runs of add-metadata.cjs over a content directory
InitMetadata ==
    /\ maxDepth = 0
    /\ saveReport = FALSE
    /\ dom = <<>>
    /\ axe = <<>>
    /\ visited = {}
    /\ queue = <<>>
    /\ status = "idle"
    /\ failure = <<>>
    /\ location = <<>>
    /\ visits = <<>>
    /\ audits = <<>>
    /\ calls = <<>>
    /\ filer = [f \in {1} |-> IdleFiler]
    /\ flog = <<>>
    /\ markdown = NoMarkdown
    /\ writes = <<>>
    /\ earlier = <<>>
    /\ reports = <<>>
    /\ tracker = <<>>
    /\ runsLeft = 0
    /\ passesLeft = 0
    /\ NoMetadataRun
    /\ \E matched \in SUBSET MetadataFiles : disk \in [matched -> Contents]
    /\ original = disk

SpecMetadata == InitMetadata /\ [][NextMetadata]_vars

(* ------------------------------- claims -------------------------------- *)

NoRepeats(xs) == \A i, j \in 1..Len(xs) : i # j => xs[i] # xs[j]

aboutUrl == Resolved[hAbout]

teamUrl == Resolved[hTeam]

CalledUrls == {calls[i].url : i \in 1..Len(calls)}

\* C1: in one run no URL string is given to cy.visit twice and none is
\* audited twice, whatever the link graph of the site.
C1_AuditedAtMostOnce == NoRepeats(visits) /\ NoRepeats(audits)

\* a run has passed in which spider() was called a second time, with depth
\* left, for a URL it had already visited (a second path led to the page)
C1_Witness ==
    /\ status = "passed"
    /\ \E i, j \in 1..Len(calls) :
          i < j /\ calls[i].url = calls[j].url /\ calls[i].depth # 0 /\ calls[j].depth # 0

\* the URLs the links of the page at url lead to, in the link graph discovered so far
LinksOf(url) ==
    IF HostOf(url) = SiteHost /\ PathOf(url) \in DOMAIN dom
    THEN {Resolved[h] : h \in {x \in Range(Selected(dom[PathOf(url)])) : TextOK(x)}}
    ELSE {}

\* the URLs at most k links away from the root
RECURSIVE ReachWithin(_)
ReachWithin(k) ==
    IF k <= 0 THEN {Seed}
    ELSE ReachWithin(k - 1) \cup UNION {LinksOf(u) : u \in ReachWithin(k - 1)}

\* C2: in a crawl started with max depth D >= 0, every audited (and every
\* visited) URL is at most D links away from the root in the link graph
\* discovered on the pages loaded.
C2_WithinDepth ==
    maxDepth >= 0 => (Range(audits) \cup Range(visits)) \subseteq ReachWithin(maxDepth)

\* a run has passed in which the depth test made spider() return for a URL
\* that was never visited
C2_Witness ==
    /\ status = "passed"
    /\ maxDepth >= 1
    /\ \E i \in 1..Len(calls) : calls[i].depth = 0 /\ calls[i].url \notin visited

\* the site of the example as far as a crawl of depth 1 sees it: the root
\* links to /about only
ExampleSite == hRoot \in DOMAIN dom /\ dom[hRoot] = <<hAbout>>

\* C3 as claimed: with max depth 1 on the example site a run that passed
\* has audited /about and has never called spider() for /about/team.
C3_AsClaimed ==
    (maxDepth = 1 /\ ExampleSite /\ status = "passed")
        => (aboutUrl \in Range(audits) /\ teamUrl \notin CalledUrls)

\* C3 amended: with max depth 1 on the example site only the root is
\* audited: spider() is called for /about with depth 0 and returns at once,
\* and /about/team is never enqueued or audited.
C3_OnlyRootAudited ==
    (maxDepth = 1 /\ ExampleSite)
        => /\ aboutUrl \notin Range(visits) \cup Range(audits)
           /\ teamUrl \notin CalledUrls \cup Range(visits) \cup Range(audits)
           /\ status = "passed" =>
                 /\ audits = <<Seed>>
                 /\ \E i \in 1..Len(calls) : calls[i].url = aboutUrl /\ calls[i].depth = 0

C3_Witness == maxDepth = 1 /\ ExampleSite /\ status = "passed"

\* C4: a crawl started with a non-negative max depth ends (the test passes
\* or fails), also on a site whose links form cycles, and no URL is visited
\* again on the way.
C4_CrawlTerminates ==
    /\ []NoRepeats(visits)
    /\ (status = "running" /\ maxDepth >= 0) ~> (status \in {"passed", "failed"})

\* a crawl has passed on a site where /about links back to the root, after
\* auditing /about
C4_Witness ==
    /\ status = "passed"
    /\ maxDepth >= 0
    /\ hAbout \in DOMAIN dom
    /\ hRoot \in Range(dom[hAbout])
    /\ aboutUrl \in Range(audits)

\* an href of the kinds that are never to be crawled
Excluded(href) ==
    \/ StartsWith(href, <<"m", "a", "i", "l", "t", "o", ":">>)
    \/ StartsWith(href, <<"#">>)
    \/ Includes(href, <<"l", "o", "g", "o", "u", "t">>)

\* C5: spider() is never called for a link whose href is a mailto: link, a
\* fragment-only href or contains 'logout', no such link is in the command
\* queue, and the logout page is never visited.
C5_ExcludedNeverCrawled ==
    /\ \A i \in 1..Len(calls) : ~Excluded(calls[i].href)
    /\ \A i \in 1..Len(queue) : ~Excluded(queue[i].href)
    /\ \A i \in 1..Len(visits) : PathOf(visits[i]) # hLogout

\* a run has passed that extracted the links of a root page carrying a
\* fragment-only href, a mailto: href and /logout, and followed another link
C5_Witness ==
    /\ status = "passed"
    /\ hRoot \in DOMAIN dom
    /\ {hTop, hMailto, hLogout} \subseteq Range(dom[hRoot])
    /\ Len(calls) > 1

\* the log entries of the given kind written in the given pass
Logged(what, pass) == {i \in 1..Len(flog) : flog[i].what = what /\ flog[i].pass = pass}

\* C6 as claimed: the second run creates no issue.
C6_AsClaimed == Logged("created", 2) = {}

\* C6 amended: the second run creates no issue for a page whose issue the
\* first run created, and the tracker never holds two open issues of one
\* title; the second run does create the issue the first run failed to create.
C6_NoDuplicateIssues ==
    /\ NoRepeats(tracker)
    /\ \A i \in Logged("created", 2), j \in Logged("created", 1) :
          Title(flog[i].file) # Title(flog[j].file)

\* both runs are over: the first created an issue and the second skipped
\* the same page
C6_Witness ==
    /\ runsLeft = 0
    /\ passesLeft = 0
    /\ filer[1].pc = "done"
    /\ \E i \in Logged("created", 1), j \in Logged("skipped", 2) :
          flog[i].file = flog[j].file

\* C7 as claimed: a page is skipped only if the tracker holds an open issue
\* whose title is exactly the page's title (issues are never closed here, so
\* the tracker of the moment of the skip is part of the present one).
C7_AsClaimed ==
    \A i \in 1..Len(flog) :
        flog[i].what = "skipped" => Title(flog[i].file) \in Range(tracker)

\* C8: a `gh issue create` that fails is logged for its page and does not
\* end the script: the script ends early only on a failed search, it goes on
\* to the files after the failure, and a pass that is done has logged every
\* report file of the directory.
C8_CreateFailureCaught ==
    \A f \in DOMAIN filer :
        /\ filer[f].pc = "crashed" => flog[Len(flog)].what = "search failed"
        /\ \A i \in Logged("failed", filer[f].pass) :
              flog[i].file \notin Range(filer[f].todo)
        /\ filer[f].pc = "done" =>
              \A file \in DOMAIN reports :
                  \E i \in 1..Len(flog) :
                      flog[i].pass = filer[f].pass /\ flog[i].file = file

\* a pass is done in which the creation failed for one page and the issue
\* of a later page was created
C8_Witness ==
    /\ filer[1].pc = "done"
    /\ \E i \in Logged("failed", filer[1].pass), j \in Logged("created", filer[1].pass) :
          i < j

\* C9 as claimed: an audit that fails or reports violations does not abort
\* the crawl; here: when the root's audit does so in a run of depth 2 or
\* more and the root links to /about, /about is still audited in that run.
C9_AsClaimed ==
    ( /\ status \in {"passed", "failed"}
      /\ maxDepth >= 2
      /\ ExampleSite
      /\ failure # <<>>
      /\ failure[1] \in {"audit", "violations"}
      /\ failure[2] = Seed )
        => aboutUrl \in Range(audits)

\* C10 as claimed: a page whose audit call failed has a stored report, and
\* the failure does not fail the test.
C10_AsClaimed ==
    (failure # <<>> /\ failure[1] = "audit")
        => ReportFile(failure[2]) \in DOMAIN reports /\ status # "failed"

\* C11 as claimed: when a run that saves reports is over, every URL it gave
\* to cy.visit has exactly one report written in that run; here for the runs
\* in which no command failed.
C11_AsClaimed ==
    (saveReport /\ status = "passed")
        => \A i \in 1..Len(visits) :
              Cardinality({j \in 1..Len(writes) : writes[j].url = visits[i]}) = 1

\* C12: formatting an empty violation list for a page gives the heading of
\* the page followed by '_No violations found._' and nothing else: no
\* section of a violation.
C12_EmptyListSentinel ==
    (markdown # NoMarkdown /\ markdown.violations = <<>>)
        => /\ markdown.text = <<"## Accessibility Violations on '">> \o markdown.url
                                \o <<"'\n\n", "_No violations found._">>
           /\ \A k \in 1..Len(markdown.text) : markdown.text[k] # "\n### (x) "

\* the formatter was called for /a/t with an empty list
C12_Witness == markdown.url = hTeam /\ markdown.violations = <<>> /\ markdown.text # <<>>

\* s with every "/" replaced by "-"
RECURSIVE Dashed(_)
Dashed(s) ==
    IF s = <<>> THEN <<>>
    ELSE <<IF Head(s) = "/" THEN "-" ELSE Head(s)>> \o Dashed(Tail(s))

\* the report key as specified
Key(path) ==
    IF path = <<"/">> THEN <<"h", "o", "m", "e">>
    ELSE IF Head(Dashed(path)) = "-" THEN Tail(Dashed(path)) ELSE Dashed(path)

\* C13: the report of a page is written to a11y-<key>.md, where the key is
\* 'home' for the root path '/', and for every other path the path with
\* every '/' replaced by '-' and one leading '-' removed: /a/t gives a-t.
C13_ReportKey ==
    \A j \in 1..Len(writes) :
        /\ writes[j].file = <<"a", "1", "1", "y", "-">> \o Key(writes[j].url) \o <<".", "m", "d">>
        /\ writes[j].url = hTeam => Key(writes[j].url) = <<"a", "-", "t">>
        /\ (StartsWith(writes[j].url, <<"/">>) /\ writes[j].url # hRoot)
              => Len(Key(writes[j].url)) = Len(writes[j].url) - 1

\* reports were written for the root path and for /a/t
C13_Witness ==
    /\ Len(writes) = 2
    /\ writes[1].url = hRoot
    /\ writes[2].url = hTeam

\* the path of the page a report was made for
PagePath(url) == IF StartsWith(url, <<"/">>) THEN url ELSE PathOf(url)

\* C14 as claimed: the issue created for the report of a page is titled
\* 'Accessibility issues on ' followed by the path of the page.
C14_AsClaimed ==
    \A i \in 1..Len(flog) :
        flog[i].what = "created" =>
            \A url \in ReportUrls \cup {Resolved[hAbout], Resolved[hB]} :
                flog[i].file = ReportFile(url) =>
                    Title(flog[i].file) = TitlePrefix \o Tail(PagePath(url))

\* the last write made for the page of url
LastWriteFor(url) ==
    writes[CHOOSE j \in 1..Len(writes) :
              /\ writes[j].url = url
              /\ \A k \in (j + 1)..Len(writes) : writes[k].url # url]

\* C15 as claimed: after any sequence of report writes the store holds, for
\* each page a report was written for, exactly the content of the last write
\* for that page.
C15_AsClaimed ==
    \A j \in 1..Len(writes) :
        /\ writes[j].file \in DOMAIN reports
        /\ reports[writes[j].file] = LastWriteFor(writes[j].url).content

\* C16 as claimed: a crawl started with a negative depth visits and audits
\* no page.
C16_AsClaimed == maxDepth < 0 => (visits = <<>> /\ audits = <<>>)

\* the run ended without a failure of the environment (a page that did not
\* load, an audit that threw): what is left depends on the site alone
SiteDecided(st, fl) ==
    /\ st \in {"passed", "failed"}
    /\ fl # <<>> => fl[1] \notin {"visit", "audit"}

\* C17: every crawl run starts with an empty visited set, and a second run
\* over the unchanged site audits the same set of pages as the run before it
\* (both runs free of failures of the environment).
C17_VisitedPerRun ==
    /\ (status = "running" /\ queue # <<>> /\ Head(queue).op = "it") => visited = {}
    /\ ( /\ earlier # <<>>
         /\ SiteDecided(status, failure)
         /\ SiteDecided(earlier[Len(earlier)].status, earlier[Len(earlier)].failure) )
          => Range(audits) = Range(earlier[Len(earlier)].audits)

\* a second run has passed after a first that passed, both having audited
\* two pages or more
C17_Witness ==
    /\ earlier # <<>>
    /\ earlier[1].status = "passed"
    /\ status = "passed"
    /\ Len(audits) >= 2

\* the report files written by the run of the given number (the first is 1)
WrittenInRun(n) ==
    {writes[j].file : j \in {k \in 1..Len(writes) : writes[k].run = MaxRuns - n}}

\* C18 as claimed: the filing pass that follows a run creates issues only
\* for the pages that run reported.
C18_AsClaimed ==
    \A i \in 1..Len(flog) :
        flog[i].what = "created" => flog[i].file \in WrittenInRun(flog[i].pass)

\* C19 as claimed: an href that does not parse as a URL never aborts the
\* crawl: no run fails in the link filter of a page.
C19_AsClaimed == failure # <<>> => failure[1] # "url"

\* C20 as claimed: every violation of a report written by the crawl has an
\* impact of the allow-list (critical, serious).
C20_AsClaimed ==
    \A j \in 1..Len(writes) :
        \A k \in 1..Len(writes[j].violations) :
            writes[j].violations[k].impact \in includedImpacts

\* the number of links on a shortest path from the root to url, in the link
\* graph discovered
Level(url) ==
    CHOOSE k \in 0..Cardinality(Pages) + 1 :
        /\ url \in ReachWithin(k)
        /\ k > 0 => url \notin ReachWithin(k - 1)

\* C21 as claimed: pages are audited breadth-first: a page nearer to the root
\* is discovered earlier and so is audited before a page farther from it.
C21_AsClaimed ==
    (status = "passed" /\ maxDepth >= 0)
        => \A i, j \in 1..Len(audits) : i < j => Level(audits[i]) <= Level(audits[j])

\* the run before the present one
Previous == earlier[Len(earlier)]

\* C22: a second run over the same site, with the same link order on every
\* page and the same max depth, audits the same pages in the same order as
\* the run before it (both runs free of failures of the environment).
C22_Deterministic ==
    ( /\ earlier # <<>>
      /\ SiteDecided(status, failure)
      /\ SiteDecided(Previous.status, Previous.failure) )
        => /\ audits = Previous.audits
           /\ status = Previous.status

\* a second run has passed after a first that passed, both having audited
\* three pages or more
C22_Witness ==
    /\ earlier # <<>>
    /\ Previous.status = "passed"
    /\ status = "passed"
    /\ Len(audits) >= 3
    /\ Len(Previous.audits) >= 3

\* the entry the filer has just logged, if it has logged one in this step
JustLogged(what) ==
    /\ Len(flog') = Len(flog) + 1
    /\ flog'[Len(flog')].what = what

\* C23: the issue filer decides about a page (create, skip) only with the
\* answer of the search for that page's title got in the same pass: every
\* step that creates an issue, fails to create it or skips the page starts
\* where the search for that title has returned, and while the search is
\* running nothing is decided.
C23_QueryBeforeDecision ==
    [][ \A f \in DOMAIN filer :
          /\ (JustLogged("created") \/ JustLogged("skipped") \/ JustLogged("failed"))
                => /\ filer[f].pc = "decide"
                   /\ filer[f].asked = Title(flog'[Len(flog')].file)
                   /\ flog'[Len(flog')].pass = filer[f].pass
          /\ tracker' # tracker => JustLogged("created")
          /\ filer[f].pc = "search" => tracker' = tracker ]_vars

\* an issue was created for the second file of a pass
C23_Witness ==
    /\ filer[1].pc = "done"
    /\ Len(flog) = 2
    /\ flog[2].what = "created"
    /\ filer[1].asked = Title(flog[2].file)

\* the elements of text that stand right after an element equal to marker, in order
After(text, marker) ==
    LET at == SelectSeq([k \in 1..Len(text) - 1 |-> k], LAMBDA k : text[k] = marker)
    IN  [i \in 1..Len(at) |-> text[at[i] + 1]]

\* C24: the text the formatter returns has one section per violation, in the
\* order the violations were supplied in, and in the sections one bullet per
\* affected node, in the order supplied.
C24_OrderKept ==
    (markdown.violations # <<>> /\ markdown.text # TypeError)
        => /\ After(markdown.text, "\n### (x) ")
                = [i \in 1..Len(markdown.violations) |-> markdown.violations[i].id]
           /\ After(markdown.text, "  - '")
                = Flatten([i \in 1..Len(markdown.violations) |-> markdown.violations[i].nodes])

\* the formatter was called with a minor violation before a serious one, and
\* earlier with a violation of two nodes saved in a report
C24_Witness ==
    /\ markdown.violations = <<vMinor, vSerious>>
    /\ markdown.text # <<>>
    /\ writes # <<>>
    /\ writes[1].violations = <<vModerate>>

\* C25 as claimed: the formatter returns a text for every report, also for
\* one whose violation names no nodes: it never throws.
C25_AsClaimed == markdown.text # TypeError

\* C26 as claimed: no URL given to spider() carries a fragment, and no page
\* (host and path) is audited twice in a run.
C26_AsClaimed ==
    /\ \A i \in 1..Len(calls) : "#" \notin Range(calls[i].url)
    /\ \A i, j \in 1..Len(audits) :
          (i # j /\ HostOf(audits[i]) = HostOf(audits[j]))
              => PathOf(audits[i]) # PathOf(audits[j])

\* the cy.then commands a link extraction has just put at the head of the queue
NewThens ==
    {queue'[i] : i \in 1..(Len(queue') - Len(queue) + 1)}

\* C27: the visited set, the test on entry to spider() and the test at
\* extraction all work on the resolved absolute URL: the seed is the resolved
\* form of '/', every spider() call for a link is made with the resolved form
\* of its href, the visited set holds resolved forms only, and a link
\* extraction queues no link whose resolved form is in the visited set.
C27_ResolvedFormEverywhere ==
    /\ [](/\ Seed = Resolve(hRoot)
          /\ \A i \in 1..Len(calls) :
                calls[i].href # <<>> => calls[i].url = Resolve(calls[i].href)
          /\ \A i \in 1..Len(queue) :
                queue[i].op = "then" => queue[i].url = Resolve(queue[i].href)
          /\ visited \subseteq CalledUrls
          /\ \A u \in visited : StartsWith(u, Scheme))
    /\ [][(Running /\ Head(queue).op = "get" /\ status' = "running")
            => \A c \in NewThens : c.op = "then" /\ c.url \notin visited]_vars

\* a run has passed in which /a, linking back to '/', was extracted, and in
\* which two hrefs of one resolved form, /a and /./a, were followed
C27_Witness ==
    /\ status = "passed"
    /\ hAbout \in DOMAIN dom
    /\ hRoot \in Range(dom[hAbout])
    /\ \E i, j \in 1..Len(calls) :
          /\ calls[i].href = hAbout
          /\ calls[j].href = hDotAbout
          /\ calls[i].url = calls[j].url

\* the URLs whose cy.visit is waiting in the command queue
VisitsQueued == {queue[i].url : i \in {k \in 1..Len(queue) : queue[k].op = "visit"}}

\* C28: during a run no URL leaves the visited set, the set is exactly the
\* set of URLs whose visit has run or is queued, and a URL that spider() was
\* only called for with depth 0 is not in it.
C28_VisitedGrows ==
    /\ [](visited = Range(visits) \cup VisitsQueued)
    /\ [](\A i \in 1..Len(calls) :
            (\A j \in 1..Len(calls) : calls[j].url = calls[i].url => calls[j].depth = 0)
                => calls[i].url \notin visited)
    /\ [][status = "running" => visited \subseteq visited']_vars

\* a run has passed that visited three pages and turned a fourth away
\* because no depth was left
C28_Witness ==
    /\ status = "passed"
    /\ Cardinality(visited) = 3
    /\ \E i \in 1..Len(calls) : calls[i].depth = 0 /\ calls[i].url \notin visited

\* C29 as claimed: every URL given to cy.visit is of the host of the base URL.
C29_AsClaimed ==
    \A i \in 1..Len(visits) : HostOf(visits[i]) = HostOf(baseUrl \o <<"/">>)

\* C30 as claimed: a run that passed has audited every page within its
\* budget of the root; the budget taken here is the one of the code, max
\* depth - 1 links (the root alone for max depth 1).
C30_AsClaimed ==
    (status = "passed" /\ maxDepth >= 1)
        => ReachWithin(maxDepth - 1) \subseteq Range(audits)

\* C31 as claimed: the reports of two different page paths are written to
\* two different files.
C31_AsClaimed ==
    \A i, j \in 1..Len(writes) :
        ( /\ StartsWith(writes[i].url, <<"/">>)
          /\ StartsWith(writes[j].url, <<"/">>)
          /\ writes[i].url # writes[j].url )
            => writes[i].file # writes[j].file

\* C32 as claimed: whatever the interleaving of two concurrent passes, the
\* tracker never holds two open issues of one title.
C32_AsClaimed == NoRepeats(tracker)

\* C33 as claimed: a failed search for one page does not end the pass, so no
\* pass is ever stopped by a failed search while reports after that page are
\* still waiting to be checked.
C33_AsClaimed ==
    \A f \in DOMAIN filer :
        filer[f].pc = "crashed" => Tail(filer[f].todo) = <<>>

\* the reports that are the "no violations found" page
SentinelReports ==
    {file \in DOMAIN reports : Includes(reports[file], <<"_No violations found._">>)}

\* the page a report file was last written for
PageOf(file) ==
    writes[CHOOSE j \in 1..Len(writes) :
              /\ writes[j].file = file
              /\ \A k \in (j + 1)..Len(writes) : writes[k].file # file].url

\* C34 as claimed: an issue is created only for a page that has at least one
\* violation: whenever the script creates an issue, axe's latest audit of the
\* page of that report found a violation.
C34_AsClaimed ==
    [][(/\ Len(flog') = Len(flog) + 1
        /\ flog'[Len(flog')].what = "created")
          => axe[PagePath(PageOf(flog'[Len(flog')].file))] # <<>>]_vars

\* what does hold while the site stays as it is: every issue created is for a
\* report file that was only ever written from a non-empty list of violations,
\* and no report in the directory is the "no violations found" page.
C34_IssueOnlyForViolations ==
    /\ SentinelReports = {}
    /\ \A i \in 1..Len(flog) :
          flog[i].what = "created" =>
              /\ \E j \in 1..Len(writes) : writes[j].file = flog[i].file
              /\ \A j \in 1..Len(writes) :
                    writes[j].file = flog[i].file => writes[j].violations # <<>>

\* an issue was created after a crawl that audited a page without violations
\* before it came to the page with violations
C34_Witness ==
    /\ \E i \in 1..Len(flog) : flog[i].what = "created"
    /\ \E u \in DOMAIN axe : axe[u] = <<>>

\* the content is '---' after white space only, or after nothing
DashesAfterSpace(content) ==
    \E i \in 1..Len(content) :
        /\ \A j \in 1..(i - 1) : content[j] \in Whitespace
        /\ i + 2 <= Len(content)
        /\ content[i] = "-" /\ content[i + 1] = "-" /\ content[i + 2] = "-"

\* the first run of add-metadata.cjs has come to an end
FirstRunOver == metadataRuns > 1 \/ (metadataRuns = 1 /\ script = "done")

\* C35: the frontmatter utility is idempotent and preserves content: a file
\* whose trimmed content starts with '---' is left unchanged; every other
\* matched file becomes the generated frontmatter followed by its original
\* content, once and for good; when a run is over addedCount + skippedCount
\* is the number of matched files; a second run modifies no file.
C35_IdempotentPreserving ==
    /\ DOMAIN disk = DOMAIN original
    /\ \A file \in DOMAIN disk :
          IF DashesAfterSpace(original[file])
          THEN disk[file] = original[file]
          ELSE /\ \/ disk[file] = original[file] /\ ~FirstRunOver
                  \/ \E date \in Dates :
                        disk[file] = frontmatter(file, date) \o original[file]
               /\ FirstRunOver => disk[file] # original[file]
    /\ script = "running" =>
          addedCount + skippedCount + Len(pending) = Cardinality(DOMAIN disk)
    /\ script = "done" => addedCount + skippedCount = Cardinality(DOMAIN disk)
    /\ metadataRuns > 1 => disk = atStart /\ addedCount = 0

\* a second run is over, on a directory where the first run gave one file its
\* frontmatter and skipped another whose '---' came after white space
C35_Witness ==
    /\ metadataRuns = 2
    /\ script = "done"
    /\ skippedCount = 2
    /\ \E file \in DOMAIN disk : ~DashesAfterSpace(original[file])
    /\ \E file \in DOMAIN disk :
          DashesAfterSpace(original[file]) /\ original[file][1] \in Whitespace

====
